---- MODULE Spec2Model ----
(***************************************************************************)
(* Model of deep-tree-echo-ml/activity_stream.py: the curses dashboard     *)
(* (class ActivityStream) and the plain-text tail mode (main, verbose).    *)
(*                                                                         *)
(* Time is counted in ticks of 50 ms, the shortest delay in the program    *)
(* (time.sleep(0.05), line 282).                                           *)
(***************************************************************************)
EXTENDS Integers, Sequences, FiniteSets, TLC

VARIABLES
    files,              \* activity_logs/<component>/activity.json, per component
    writes,             \* number of writes the external producers have made
    \* ---- tail mode (main, verbose=True) ----
    last_seen,          \* last_seen[c]: the list read by the last successful poll
    printed,            \* the lines printed by the latest poll iteration
    observed,           \* history: the number of records printed so far, per component
    tail_beat,          \* the latest poll iteration printed the heartbeat message
    last_beat_at,       \* history: when the heartbeat message was last printed
    failed_at,          \* history: each component's cursor at its latest failed read
    \* ---- dashboard (class ActivityStream) ----
    stream_type,        \* self.stream_type, the --type option
    pc,                 \* where run() stands
    running,            \* self.running
    activities,         \* self.activities: the cache, per component
    system_stats,       \* self.system_stats
    last_screen_state,  \* self.last_screen_state
    changed,            \* what _screen_state_changed() returned last
    last_update,        \* self.last_update
    current_time,       \* run()'s local current_time
    timeline,           \* update_display()'s local activities, once sorted
    screen,             \* what the curses screen shows
    now,                \* time.time(), in ticks
    horizon,            \* the time at which the observed run ends
    failures,           \* number of psutil failures so far
    keys,               \* number of keys the user has pressed so far
    collected,          \* history: the files as update_activities last read them
    refreshed,          \* history: the cache as update_activities last left it
    prev_snapshot,      \* history: the state (by value) at the previous detector call
    heartbeat_at,       \* history: when the heartbeat line was last drawn
    viewport,           \* self.screen.getmaxyx(): rows h and columns w of the terminal
    cursor_hidden,      \* the cursor is invisible (curses.curs_set(0) is in force)
    notice,             \* the latest step of run() reported an error notice
    last_key            \* history: what the latest getch() returned

tailVars == <<last_seen, printed, observed, tail_beat, last_beat_at, failed_at>>
dashVars == <<stream_type, pc, running, activities, system_stats, last_screen_state,
              changed, last_update, current_time, timeline, screen, now, horizon,
              failures, keys, collected, refreshed, prev_snapshot, heartbeat_at, viewport, last_key,
              cursor_hidden, notice>>
vars == <<files, writes, tailVars, dashVars>>

\* What the tail loop never touches: the dashboard's state but the clock.
idleDash == <<stream_type, pc, running, activities, system_stats, last_screen_state,
              changed, last_update, current_time, timeline, screen, horizon,
              failures, keys, collected, refreshed, prev_snapshot, heartbeat_at, viewport, last_key,
              cursor_hidden, notice>>

----------------------------------------------------------------------------
(* Bounds of the model *)

MaxTailWrites == 2      \* producer writes in one behaviour of the tail mode
TailRun == 8            \* ticks observed by SpecTail (three or four polls)
MaxWrites == 1          \* producer writes in one behaviour of the dashboard
MaxLen == 3             \* longest list a producer grows by appending
MaxFailures == 1        \* psutil failures in one behaviour
MaxKeys == 1            \* keys pressed in one behaviour
ShortRun == 13          \* ticks observed by Spec (two refresh cycles)
LongRun == 640          \* ticks observed by SpecLong (a little over 30 s)
StartTime == 1000       \* time.time() when the program starts
max_y == 10             \* rows of the terminal, screen.getmaxyx()[0]
max_x == 80             \* columns of the terminal, screen.getmaxyx()[1]
TallRows == 60          \* rows of a terminal taller than the render window
NarrowCols == 20        \* columns of a terminal narrower than a record line
LowRows == 2            \* rows of a terminal too low for the status line

----------------------------------------------------------------------------
(* Data *)

\* The seven components, in the order of the paths dict.
Components ==
    <<"cognitive", "sensory", "ml", "browser", "terminal", "personality", "emergency">>

ComponentSet == {Components[i] : i \in 1..Len(Components)}

\* self.max_items = 100
max_items == 100

\* A Python dict read from a log: a key that is absent has the value below.
NoTime == -1
NoText == "<absent>"

Rec(t, d, c) == [time |-> t, description |-> d, component |-> c, error |-> NoText]

\* The records the producers write: two distinct times, a tie on time 1, a
\* record with no time, and a record carrying a foreign component tag.
RecA == Rec(1, "a", NoText)
RecB == Rec(2, "b", NoText)
RecC == Rec(NoTime, "c", "sensory")
RecD == Rec(1, "d", NoText)
Records == {RecA, RecB, RecC, RecD}

\* What a file holds: nothing (no such file), text that is not JSON (a partial
\* write included), a JSON array of records, an object with a history array,
\* a bare object (one record), or another JSON value (a number, a string).
Missing == [kind |-> "missing", recs |-> <<>>]
Malformed == [kind |-> "malformed", recs |-> <<>>]
Scalar == [kind |-> "scalar", recs |-> <<>>]
ListFile(s) == [kind |-> "list", recs |-> s]
HistoryFile(s) == [kind |-> "history", recs |-> s]
ObjectFile(r) == [kind |-> "object", recs |-> <<r>>]

\* path.exists()
Exists(f) == f.kind # "missing"

\* json.load(f) returns (and does not raise JSONDecodeError)
Parses(f) == f.kind \in {"list", "history", "object", "scalar"}

\* isinstance(data, list)
IsList(f) == f.kind = "list"

\* s[n:] for 0 <= n
DropFirst(s, n) == IF n >= Len(s) THEN <<>> ELSE SubSeq(s, n + 1, Len(s))

\* s[-n:] for n > 0
LastN(s, n) == IF Len(s) <= n THEN s ELSE SubSeq(s, Len(s) - n + 1, Len(s))

RECURSIVE ConcatAll(_, _)
\* the concatenation of f[Components[i]], i = from..7
ConcatAll(f, from) ==
    IF from > Len(Components) THEN <<>>
    ELSE f[Components[from]] \o ConcatAll(f, from + 1)

----------------------------------------------------------------------------
(* The external producers *)

\* The components whose producers write during the run.
ActiveProducers == {"ml", "emergency"}

\* A list of n records with the times 1..n.
LongList(n) == [i \in 1..n |-> Rec(i, "n", NoText)]

\* What a producer replaces a file with (a rewrite, a rotation, a removal).
ReplaceValues ==
    { Missing, Malformed, Scalar,
      ListFile(<<>>), ListFile(<<RecB>>), ListFile(<<RecB, RecA>>),
      HistoryFile(<<RecA>>), ObjectFile(RecA) }

\* Both modes create every missing file as [] before their loop starts.
InitFiles == [c \in ComponentSet |-> ListFile(<<>>)]

ProducerAppend(c, r, limit) ==
    /\ writes < limit
    /\ files[c].kind = "list"
    /\ Len(files[c].recs) < MaxLen
    /\ files' = [files EXCEPT ![c] = ListFile(Append(files[c].recs, r))]
    /\ writes' = writes + 1

ProducerReplace(c, v, limit) ==
    /\ writes < limit
    /\ v # files[c]
    /\ files' = [files EXCEPT ![c] = v]
    /\ writes' = writes + 1

Producer(limit) ==
    \E c \in ActiveProducers :
        \/ \E r \in Records : ProducerAppend(c, r, limit)
        \/ \E v \in ReplaceValues : ProducerReplace(c, v, limit)

----------------------------------------------------------------------------
(* Dashboard: class ActivityStream, lines 25-295 *)

TicksPerSecond == 20

\* self.update_interval = 0.5
update_interval == TicksPerSecond \div 2

\* the 30 of "time.time() - self.last_update > 30"
HeartbeatTicks == 30 * TicksPerSecond

\* psutil.cpu_percent(interval=0.1) blocks for 0.1 s
CpuTicks == TicksPerSecond \div 10

\* self.screen.timeout(100): getch waits at most 100 ms
GetchTicks == TicksPerSecond \div 10

\* time.sleep(0.05)
SleepTicks == TicksPerSecond \div 20

\* the 50 of "activities[-50:]"
window == 50

StreamTypes == {"all"} \cup ComponentSet

\* psutil's readings; the sample also carries datetime.now()
CpuValues == {10}
NoStats == [cpu |-> -1, time |-> -1]
Sample(v, t) == [cpu |-> v, time |-> t]

\* The record update_system_stats appends when psutil raises.
StatsError(t) ==
    [time |-> t, description |-> NoText, component |-> NoText, error |-> "stats"]

\* A refresh that would empty the cache when the file cannot be read.
RefreshClears(cache, f) ==
    IF ~Exists(f) THEN <<>>
    ELSE IF ~Parses(f) THEN <<>>
    ELSE IF IsList(f) THEN LastN(f.recs, max_items)
    ELSE IF f.kind = "history" THEN LastN(f.recs, max_items)
    ELSE IF f.kind = "object" THEN <<f.recs[1]>>
    ELSE cache

\* A refresh that would add what it reads to what the cache holds.
RefreshExtends(cache, f) ==
    IF ~Exists(f) THEN cache
    ELSE IF ~Parses(f) THEN cache
    ELSE IF IsList(f) THEN LastN(cache \o f.recs, max_items)
    ELSE IF f.kind = "history" THEN LastN(cache \o f.recs, max_items)
    ELSE IF f.kind = "object" THEN <<f.recs[1]>>
    ELSE cache

\* update_activities, the body of the for loop for one component: the cache
\* entry self.activities[activity_type] after it.
Refresh(cache, f) ==
    IF ~Exists(f) THEN cache
    ELSE IF ~Parses(f) THEN cache
    ELSE IF IsList(f) THEN LastN(f.recs, max_items)
    ELSE IF f.kind = "history" THEN LastN(f.recs, max_items)
    ELSE IF f.kind = "object" THEN <<f.recs[1]>>
    ELSE cache

\* self.last_screen_state: {} at first; later a dict whose 'activities' is the
\* very dict object self.activities (never copied, never rebound) and whose
\* 'stats' is the stats dict of that call (rebound by every successful sample).
NoState == [set |-> FALSE, stats |-> NoStats]
AliasedState(stats) == [set |-> TRUE, stats |-> stats]

\* The value of last_screen_state['activities'] when it is read: the current
\* content of the shared dict.
AliasedActivities(acts) == acts

\* current_state != self.last_screen_state
StateDiffers(acts, stats, last) ==
    IF ~last.set THEN TRUE
    ELSE acts # AliasedActivities(acts) \/ stats # last.stats

\* A display that would keep the tag written by the producer.
StampKeeps(r, c) == r

\* activity['component'] = component
Stamp(r, c) == [r EXCEPT !.component = c]

StampAll(s, c) == [i \in 1..Len(s) |-> Stamp(s[i], c)]

\* x.get('time', 0)
TimeKey(r) == IF r.time = NoTime THEN 0 ELSE r.time

\* The rank an unstable sort could give: records with equal keys reversed.
RankTiesReversed(s, i) ==
    Cardinality({j \in 1..Len(s) :
                    \/ TimeKey(s[j]) < TimeKey(s[i])
                    \/ TimeKey(s[j]) = TimeKey(s[i]) /\ j > i}) + 1

\* Where s[i] stands after a stable sort by key: behind every record with a
\* smaller key and behind the records with the same key that precede it in s.
Rank(s, i) ==
    Cardinality({j \in 1..Len(s) :
                    \/ TimeKey(s[j]) < TimeKey(s[i])
                    \/ TimeKey(s[j]) = TimeKey(s[i]) /\ j < i}) + 1

\* activities.sort(key=lambda x: x.get('time', 0)): list.sort is stable
SortByTime(s) ==
    LET rank == SubSeq([i \in 1..Len(s) |-> Rank(s, i)], 1, Len(s))
    IN  [p \in 1..Len(s) |-> s[CHOOSE i \in 1..Len(s) : rank[i] = p]]

\* The components update_display reads, in order.
ViewComponents(st) == IF st = "all" THEN Components ELSE <<st>>

\* What one file adds to update_display's list: nothing when the file is
\* absent or is not JSON, its records stamped when it is an array.
DisplayLoad(f, c) ==
    IF Exists(f) /\ Parses(f) /\ IsList(f) THEN StampAll(f.recs, c) ELSE <<>>

\* json.load returned a dict or a scalar: iterating it and assigning
\* activity['component'] raises TypeError, which only the outer handler catches.
DisplayRaises(f) == Exists(f) /\ Parses(f) /\ ~IsList(f)

RECURSIVE Gathered(_, _, _)
\* update_display's list before the sort
Gathered(fs, view, i) ==
    IF i > Len(view) THEN <<>>
    ELSE DisplayLoad(fs[view[i]], view[i]) \o Gathered(fs, view, i + 1)

DisplayFails(fs, view) == \E i \in 1..Len(view) : DisplayRaises(fs[view[i]])

\* An order that would leave the oldest record first.
ReverseKeeps(s) == s

\* reversed(s)
Reverse(s) == [i \in 1..Len(s) |-> s[Len(s) + 1 - i]]

FirstN(s, n) == IF Len(s) <= n THEN s ELSE SubSeq(s, 1, n)

\* max_y, max_x = self.screen.getmaxyx()
Screen(h, w) == [h |-> h, w |-> w]

\* screen.addstr(y, 0, text) raises curses.error when row y is not on the
\* screen or when the text, wrapping at the right edge, reaches the last cell.
AddstrRaises(y, text, vp) == y >= vp.h \/ y * vp.w + Len(text) >= vp.h * vp.w

\* The fixed lines of the display and of the two error handlers.
Header(st) == "Deep Tree Echo Activity Stream - " \o st
StatusLine == "System: CPU 10.0% | Memory 50.0%"
BeatLine == "System active - no events"
DisplayErrorLine == "Error updating display: error"
LoopErrorLine == "Error: error"

\* The row of the first record line: the header and the status line take two
\* rows each.
FirstRow == 4

\* strftime("%H:%M:%S") of a time of day, two digits per field
Two(n) == IF n < 10 THEN "0" \o ToString(n) ELSE ToString(n)
TimeStr(t) == Two((t \div 3600) % 24) \o ":" \o Two((t \div 60) % 60) \o ":" \o Two(t % 60)

\* line = f"{time_str} [{component}] {description}", "!!! " before it for the
\* emergency component
Line(r) ==
    LET text == TimeStr(TimeKey(r)) \o " [" \o r.component \o "] "
                \o (IF r.description = NoText THEN "" ELSE r.description)
    IN  IF r.component = "emergency" THEN "!!! " \o text ELSE text

\* text[:k] of Python, k negative included
Slice(text, k) ==
    LET n == IF k >= 0 THEN k ELSE Len(text) + k
    IN  IF n <= 0 THEN "" ELSE IF n >= Len(text) THEN text ELSE SubSeq(text, 1, n)

\* if len(line) > max_x: line = line[:max_x-3] + "..."
Cut(text, w) == IF Len(text) > w THEN Slice(text, w - 3) \o "..." ELSE text

\* One row of the body, drawn on screen row y.
Row(r, y, w) ==
    [time |-> TimeKey(r), component |-> r.component,
     description |-> IF r.description = NoText THEN "" ELSE r.description,
     alert |-> r.component = "emergency",
     y |-> y, line |-> Cut(Line(r), w)]

\* The rows drawn: reversed(activities[-50:]) from row 4 down, while
\* current_line < max_y - 2 and addstr does not raise.
Rows(tl, vp) ==
    LET room == IF vp.h - 2 - FirstRow > 0 THEN vp.h - 2 - FirstRow ELSE 0
        shown == FirstN(Reverse(LastN(tl, window)), room)
        all == [i \in 1..Len(shown) |-> Row(shown[i], FirstRow + i - 1, vp.w)]
        bad == {i \in 1..Len(shown) : AddstrRaises(all[i].y, all[i].line, vp)}
    IN  IF bad = {} THEN all
        ELSE FirstN(all, (CHOOSE i \in bad : \A j \in bad : i <= j) - 1)

Blank == [error |-> FALSE, heartbeat |-> FALSE, rows |-> <<>>]
ErrorScreen == [error |-> TRUE, heartbeat |-> FALSE, rows |-> <<>>]

\* "if time.time() - self.last_update > 30" under "if not activities"
HeartbeatDue(tl, t, last) == tl = <<>> /\ t - last > HeartbeatTicks

\* An exit that would leave the cursor as the loop had it.
FinallySkipped(hidden) == hidden

\* finally: curses.curs_set(1)
Finally(hidden) == FALSE

\* curses.curs_set(0), the first statement of run()
RunStart ==
    /\ pc = "start"
    /\ cursor_hidden' = TRUE
    /\ notice' = FALSE
    /\ pc' = "while"
    /\ UNCHANGED <<stream_type, running, activities, system_stats, last_screen_state,
                   changed, last_update, current_time, timeline, screen, now, horizon,
                   failures, keys, collected, refreshed, prev_snapshot, heartbeat_at, viewport, last_key>>

\* while self.running: ... if current_time - self.last_update >= self.update_interval;
\* when the loop ends, the finally clause runs curses.curs_set(1)
LoopTop ==
    /\ pc = "while"
    /\ IF ~running
       THEN pc' = "done" /\ cursor_hidden' = Finally(cursor_hidden)
            /\ UNCHANGED current_time
       ELSE /\ current_time' = now
            /\ pc' = IF now - last_update >= update_interval
                     THEN "update_activities" ELSE "getch"
            /\ UNCHANGED cursor_hidden
    /\ notice' = FALSE
    /\ UNCHANGED <<stream_type, running, activities, system_stats, last_screen_state,
                   changed, last_update, timeline, screen, now, horizon, failures, keys,
                   collected, refreshed, prev_snapshot, heartbeat_at, viewport, last_key>>

\* update_activities; the inner handler prints "Error updating ..." for a file
\* that cannot be parsed
UpdateActivities ==
    /\ pc = "update_activities"
    /\ activities' = [c \in ComponentSet |-> Refresh(activities[c], files[c])]
    /\ collected' = files
    /\ refreshed' = activities'
    /\ notice' = \E c \in ComponentSet : Exists(files[c]) /\ ~Parses(files[c])
    /\ pc' = "update_system_stats"
    /\ UNCHANGED <<stream_type, running, system_stats, last_screen_state, changed,
                   last_update, current_time, timeline, screen, now, horizon,
                   failures, keys, prev_snapshot, heartbeat_at, viewport, last_key,
                   cursor_hidden>>

\* update_system_stats, then "self.last_update = current_time"
UpdateSystemStats ==
    /\ pc = "update_system_stats"
    /\ \E ok \in BOOLEAN, v \in CpuValues :
        /\ now + CpuTicks <= horizon
        /\ now' = now + CpuTicks
        /\ IF ok
           THEN /\ system_stats' = Sample(v, now')
                /\ UNCHANGED <<activities, failures>>
           ELSE /\ failures < MaxFailures
                /\ activities' = [activities EXCEPT
                                    !["emergency"] = Append(@, StatsError(now'))]
                /\ failures' = failures + 1
                /\ UNCHANGED system_stats
    /\ last_update' = current_time
    /\ notice' = FALSE
    /\ pc' = "screen_state_changed"
    /\ UNCHANGED <<stream_type, running, last_screen_state, changed, current_time,
                   timeline, screen, horizon, keys, collected, refreshed, prev_snapshot,
                   heartbeat_at, viewport, last_key, cursor_hidden>>

\* A loop that would draw after every detector call.
AlwaysDraws(ch) == "update_display"

\* if self._screen_state_changed(): ... self.update_display()
AfterDetector(ch) == IF ch THEN "update_display" ELSE "getch"

\* _screen_state_changed
ScreenStateChanged ==
    /\ pc = "screen_state_changed"
    /\ changed' = StateDiffers(activities, system_stats, last_screen_state)
    /\ last_screen_state' = AliasedState(system_stats)
    /\ prev_snapshot' = [set |-> TRUE, activities |-> activities, stats |-> system_stats]
    /\ notice' = FALSE
    /\ pc' = AfterDetector(changed')
    /\ UNCHANGED <<stream_type, running, activities, system_stats, last_update,
                   current_time, timeline, screen, now, horizon, failures, keys, collected, refreshed,
                   heartbeat_at, viewport, last_key, cursor_hidden>>

\* update_display. An exception (TypeError of the load, curses.error of a
\* fixed line) goes to its handler, which writes DisplayErrorLine; when that
\* raises too, the handler of run() writes LoopErrorLine and sleeps 1 s, or
\* passes on its own curses.error, and the iteration ends without getch.
UpdateDisplay ==
    /\ pc = "update_display"
    /\ LET view == ViewComponents(stream_type)
           fails_load == DisplayFails(files, view)
           tl == IF fails_load THEN <<>> ELSE SortByTime(Gathered(files, view, 1))
           due == ~fails_load /\ HeartbeatDue(tl, now, last_update)
           fails_draw == \/ AddstrRaises(0, Header(stream_type), viewport)
                         \/ AddstrRaises(2, StatusLine, viewport)
                         \/ due /\ AddstrRaises(FirstRow, BeatLine, viewport)
           fails == fails_load \/ fails_draw
           beat == due /\ ~fails
           escapes == fails /\ AddstrRaises(0, DisplayErrorLine, viewport)
           silent == escapes /\ AddstrRaises(0, LoopErrorLine, viewport)
       IN  /\ timeline' = tl
           /\ screen' = IF silent THEN Blank
                        ELSE IF fails THEN ErrorScreen
                        ELSE [error |-> FALSE, heartbeat |-> beat,
                              rows |-> IF tl = <<>> THEN <<>> ELSE Rows(tl, viewport)]
           /\ last_update' = IF beat THEN now ELSE last_update
           /\ heartbeat_at' = IF beat THEN now ELSE heartbeat_at
           /\ notice' = (fails /\ ~silent)
           /\ pc' = IF escapes THEN "while" ELSE "getch"
           /\ now' = IF escapes /\ ~silent THEN now + TicksPerSecond ELSE now
    /\ now' <= horizon
    /\ UNCHANGED <<stream_type, running, activities, system_stats, last_screen_state,
                   changed, current_time, horizon, failures, keys, collected, refreshed,
                   prev_snapshot, viewport, last_key, cursor_hidden>>

\* self.screen.getch() with its 100 ms timeout, then time.sleep(0.05)
Getch ==
    /\ pc = "getch"
    /\ \E key \in {"none", "q", "c"} :
        /\ key # "none" => keys < MaxKeys
        /\ last_key' = key
        /\ keys' = IF key = "none" THEN keys ELSE keys + 1
        /\ running' = (running /\ key # "q")
        /\ screen' = IF key = "c" THEN Blank ELSE screen
        /\ now' = now + (IF key = "none" THEN GetchTicks ELSE 0) + SleepTicks
    /\ now' <= horizon
    /\ notice' = FALSE
    /\ pc' = "while"
    /\ UNCHANGED <<stream_type, activities, system_stats, last_screen_state, changed,
                   last_update, current_time, timeline, horizon, failures,
                   collected, refreshed, prev_snapshot, heartbeat_at, viewport, cursor_hidden>>

\* Ctrl-C while run() is executing: "except KeyboardInterrupt: pass", then the
\* finally clause runs curses.curs_set(1)
Interrupt ==
    /\ pc # "done"
    /\ keys < MaxKeys
    /\ keys' = keys + 1
    /\ pc' = "done"
    /\ cursor_hidden' = Finally(cursor_hidden)
    /\ notice' = FALSE
    /\ UNCHANGED <<stream_type, running, activities, system_stats, last_screen_state,
                   changed, last_update, current_time, timeline, screen, now, horizon,
                   failures, collected, refreshed, prev_snapshot, heartbeat_at, viewport, last_key>>

\* The fields ActivityStream.__init__ sets, and the clock.
InitFields(views, run) ==
    /\ stream_type \in views
    /\ running = TRUE
    /\ activities = [c \in ComponentSet |-> <<>>]
    /\ system_stats = NoStats
    /\ last_screen_state = NoState
    /\ changed = FALSE
    /\ last_update = 0
    /\ current_time = 0
    /\ timeline = <<>>
    /\ screen = Blank
    /\ now = StartTime
    /\ horizon = StartTime + run
    /\ failures = 0
    /\ keys = 0
    /\ collected = [c \in ComponentSet |-> Missing]
    /\ refreshed = [c \in ComponentSet |-> <<>>]
    /\ prev_snapshot = [set |-> FALSE, activities |-> [c \in ComponentSet |-> <<>>],
                        stats |-> NoStats]
    /\ heartbeat_at = StartTime
    /\ cursor_hidden = FALSE
    /\ notice = FALSE
    /\ last_key = "none"

\* ActivityStream.__init__ has returned; no dashboard runs in the tail mode
InitDashboard(views, run) == InitFields(views, run) /\ pc = "start"

\* A start-up that would write an empty list into every log.
CreateAll(fs) == [c \in ComponentSet |-> ListFile(<<>>)]

\* "if not activity_file.exists(): json.dump([], f)" for each component, in
\* __init__ (lines 36-45) and in main (lines 315-321)
CreateMissing(fs) ==
    [c \in ComponentSet |-> IF Exists(fs[c]) THEN fs[c] ELSE ListFile(<<>>)]

\* The program starts on the logs it finds, as the dashboard or as the tail.
Construct ==
    /\ pc = "new"
    /\ files' = CreateMissing(files)
    /\ pc' \in {"start", "tail"}
    /\ UNCHANGED <<writes, tailVars, stream_type, running, activities, system_stats,
                   last_screen_state, changed, last_update, current_time, timeline,
                   screen, now, horizon, failures, keys, collected, refreshed, prev_snapshot,
                   heartbeat_at, viewport, last_key, cursor_hidden, notice>>

----------------------------------------------------------------------------
(* Tail mode: main(verbose=True), lines 299-363 *)

\* A slice that would take the whole list as new.
NewActivitiesAll(acts, seen) == acts

\* activities[len(last_seen[activity_type]):]
NewActivities(acts, seen) == DropFirst(acts, Len(seen))

\* One pass of the for loop body for one component: the records printed.
TailEmits(f, seen) ==
    IF Exists(f) /\ Parses(f) /\ IsList(f) THEN NewActivities(f.recs, seen) ELSE <<>>

\* A pass that would forget what was seen when the read fails.
TailSeenForgets(f, seen) ==
    IF Exists(f) /\ Parses(f) /\ IsList(f) THEN f.recs ELSE <<>>

\* last_seen[activity_type] after the pass.
TailSeen(f, seen) ==
    IF Exists(f) /\ Parses(f) /\ IsList(f) THEN f.recs ELSE seen

\* "except json.JSONDecodeError": the pass prints the warning and nothing else.
TailWarns(f) == Exists(f) /\ ~Parses(f)

\* The line printed for one record: "[time] component: description".
TailLine(c, r) == [component |-> c, rec |-> r]

TailLines(c, s) == [i \in 1..Len(s) |-> TailLine(c, s[i])]

\* The cursor of the spec: the number of records already emitted.
Cursor(c) == Len(last_seen[c])

\* The records among the printed lines p that belong to component c.
Emitted(p, c) ==
    LET own == SelectSeq(p, LAMBDA l : l.component = c)
    IN  [i \in 1..Len(own) |-> own[i].rec]

\* time.sleep(0.1)
PollSleepTicks == TicksPerSecond \div 10

\* The time one pass over the seven files takes: under a tick, or a tick.
PassTicks == {0, 1}

\* time.time() % 30 < 0.1
Aligned(t) == t % HeartbeatTicks < PollSleepTicks

\* One iteration of the while loop: every component in paths order, then the
\* heartbeat test, then the sleep.
TailPoll ==
    /\ printed' = ConcatAll([c \in ComponentSet |->
                                TailLines(c, TailEmits(files[c], last_seen[c]))], 1)
    /\ last_seen' = [c \in ComponentSet |-> TailSeen(files[c], last_seen[c])]
    /\ observed' = [c \in ComponentSet |-> observed[c] + Len(Emitted(printed', c))]
    /\ failed_at' = [c \in ComponentSet |->
                        IF TailWarns(files[c]) THEN Cursor(c) ELSE failed_at[c]]
    /\ \E pass \in PassTicks :
          LET any_events == printed' # <<>>
              t == now + pass
          IN  /\ tail_beat' = (~any_events /\ Aligned(t))
              /\ last_beat_at' = IF tail_beat' THEN t ELSE last_beat_at
              /\ now' = t + PollSleepTicks
    /\ now' <= horizon
    /\ UNCHANGED <<files, writes, idleDash>>

\* The --type values the tail mode is started with.
TailTypes == {"all", "ml"}

InitTailLoop ==
    /\ last_seen = [c \in ComponentSet |-> <<>>]
    /\ printed = <<>>
    /\ observed = [c \in ComponentSet |-> 0]
    /\ tail_beat = FALSE
    /\ last_beat_at = NoTime
    /\ failed_at = [c \in ComponentSet |-> NoTime]

InitTail ==
    /\ files = InitFiles
    /\ writes = 0
    /\ InitTailLoop
    /\ InitDashboard(TailTypes, TailRun)
    /\ viewport = Screen(max_y, max_x)

NextTail ==
    \/ Producer(MaxTailWrites) /\ UNCHANGED <<tailVars, dashVars>>
    \/ TailPoll

SpecTail == InitTail /\ [][NextTail]_vars

----------------------------------------------------------------------------
(* Claims about the tail mode, checked under SpecTail *)

\* A step of the poll loop (the producers' steps are the ones that write).
PollStep == writes' = writes

\* C1: when a poll reads an array that is the previously read content followed
\* by K >= 0 appended records, it prints exactly those K records, in file
\* order, and the cursor advances by K.
C1_TailGrowth ==
    [][\A c \in ComponentSet :
        (/\ PollStep
         /\ IsList(files[c])
         /\ Len(files[c].recs) >= Cursor(c)
         /\ SubSeq(files[c].recs, 1, Cursor(c)) = last_seen[c])
        => /\ last_seen[c] \o Emitted(printed', c) = files[c].recs
           /\ Len(last_seen'[c]) = Cursor(c) + Len(Emitted(printed', c))]_vars

\* C1 witness: a poll has printed the records appended to a list that an
\* earlier poll had already read.
C1_Witness ==
    \E c \in ComponentSet :
        /\ Emitted(printed, c) # <<>>
        /\ Cursor(c) > Len(Emitted(printed, c))
        /\ DropFirst(last_seen[c], Cursor(c) - Len(Emitted(printed, c))) = Emitted(printed, c)

\* C2 (as claimed): when a poll reads an array with fewer records than the
\* cursor, it prints the whole array and the cursor becomes its length.
C2_TailShrinkClaim ==
    [][\A c \in ComponentSet :
        (/\ PollStep
         /\ IsList(files[c])
         /\ Len(files[c].recs) < Cursor(c))
        => /\ Emitted(printed', c) = files[c].recs
           /\ Len(last_seen'[c]) = Len(files[c].recs)]_vars

\* C6 (as claimed): the cursor never decreases and never exceeds the number of
\* records observed for the component.
C6_CursorMonotoneClaim ==
    /\ [](\A c \in ComponentSet : Cursor(c) <= observed[c])
    /\ [][\A c \in ComponentSet : Len(last_seen'[c]) >= Cursor(c)]_vars

\* C6 (amended): the cursor never exceeds the number of records observed for
\* the component, and it decreases only when a poll reads an array shorter than
\* the cursor, and then to that array's length.
C6_CursorBound ==
    /\ [](\A c \in ComponentSet : Cursor(c) <= observed[c])
    /\ [][\A c \in ComponentSet :
            Len(last_seen'[c]) < Cursor(c)
            => /\ PollStep
               /\ IsList(files[c])
               /\ Len(files[c].recs) < Cursor(c)
               /\ Len(last_seen'[c]) = Len(files[c].recs)]_vars

\* C6 witness: a cursor stands below the number of records observed, after a
\* poll of a shorter array.
C6_Witness ==
    \E c \in ComponentSet : Cursor(c) > 0 /\ Cursor(c) < observed[c]

----------------------------------------------------------------------------
(* Claims about the dashboard, checked under Spec (C4 and C5 under SpecLong) *)

\* The steps of the dashboard (a producer's step leaves pc alone).
Refreshes == pc = "update_activities" /\ pc' \notin {pc, "done"}
Detects == pc = "screen_state_changed" /\ pc' \notin {pc, "done"}
Renders == pc = "update_display" /\ pc' \notin {pc, "done"}

\* The per-component record mapping plus the metrics sample, by value.
Snapshot == [set |-> TRUE, activities |-> activities, stats |-> system_stats]

\* C3 (as claimed): the Change Detector returns true exactly when the snapshot
\* it is called on differs, in a record list or in the metrics sample, from the
\* snapshot of the previous call (and so false on an identical snapshot).
C3_DetectorClaim ==
    [][Detects => changed' = (Snapshot # prev_snapshot)]_vars

\* The records the selected view holds when update_display reads the files.
ViewRecords ==
    LET view == ViewComponents(stream_type)
    IN  {<<i, j>> \in (1..Len(view)) \X (1..(max_items + 1)) :
            /\ IsList(files[view[i]])
            /\ j <= Len(files[view[i]].recs)}

\* C4 (as claimed): a render of a view with zero records, more than 30 s after
\* the last heartbeat line (or the start), draws the heartbeat line and no rows.
C4_HeartbeatClaim ==
    [][(/\ Renders
        /\ ViewRecords = {}
        /\ now - heartbeat_at > HeartbeatTicks)
       => screen'.heartbeat /\ screen'.rows = <<>>]_vars

\* The record list a file of an accepted shape stands for.
Normalized(f) ==
    IF f.kind = "object" THEN <<f.recs[1]>> ELSE f.recs

Accepted(f) == f.kind \in {"list", "history", "object"}

\* C5 (as claimed): every cache holds at most 100 records in every state, and
\* a refresh of a file of an accepted shape leaves the last 100 records of its
\* normalized content, in file order.
C5_CacheBoundClaim ==
    /\ [](\A c \in ComponentSet : Len(activities[c]) <= max_items)
    /\ [][Refreshes
          => \A c \in ComponentSet :
                Accepted(files[c])
                => activities'[c] = LastN(Normalized(files[c]), max_items)]_vars

StampedFrom(r, q, c) ==
    /\ r.component = c
    /\ [r EXCEPT !.component = q.component] = q

AsArray(f) == IF Accepted(f) THEN ListFile(Normalized(f)) ELSE f

\* C8 (as claimed): a file holding its records as a history object or as a
\* bare object gives the same cache, and the same timeline, as the file
\* holding them as an array.
C8_ShapesClaim ==
    /\ [][Refreshes
          => activities' = [c \in ComponentSet |->
                               Refresh(activities[c], AsArray(files[c]))]]_vars
    /\ [][Renders
          => LET arrays == [c \in ComponentSet |-> AsArray(files[c])]
                 view == ViewComponents(stream_type)
             IN  /\ screen'.error = DisplayFails(arrays, view)
                 /\ ~screen'.error
                    => timeline' = SortByTime(Gathered(arrays, view, 1))]_vars

\* C9: a refresh that finds a component's file missing or malformed leaves that
\* component's cache as it was, raises nothing, and the loop goes on to the
\* metrics sample.
C9_StaleFallback ==
    [][Refreshes
       => /\ \A c \in ComponentSet :
                files[c].kind \in {"missing", "malformed"}
                => activities'[c] = activities[c]
          /\ pc' = "update_system_stats"
          /\ running']_vars

\* C9 witness: the latest refresh found a file missing or malformed and the
\* cache still holds the records of an earlier read.
C9_Witness ==
    \E c \in ComponentSet :
        /\ pc = "update_system_stats"
        /\ collected[c].kind \in {"missing", "malformed"}
        /\ activities[c] # <<>>

\* The lists update_display reads, one per component of the view, in the fixed
\* component order, then in file order.
MergeInput ==
    LET view == ViewComponents(stream_type)
        lists == [c \in ComponentSet |->
                    IF stream_type \in {"all", c} /\ IsList(files[c])
                    THEN files[c].recs ELSE <<>>]
    IN  ConcatAll(lists, 1)

\* What a record is apart from its provenance tag.
Content(r) == <<r.time, r.description, r.error>>

Contents(s) == [i \in 1..Len(s) |-> Content(s[i])]

WithKey(s, k) == SelectSeq(s, LAMBDA r : TimeKey(r) = k)

Keys(s) == {TimeKey(s[i]) : i \in 1..Len(s)}

\* C10: the merged timeline is non-decreasing in time (no time counts as 0),
\* and for every time value its records are exactly the input records of that
\* time, in input order (component order, then file order); so it holds
\* exactly the input records.
C10_MergeOrder ==
    [][(Renders /\ ~screen'.error)
       => /\ \A i \in 1..(Len(timeline') - 1) :
                TimeKey(timeline'[i]) <= TimeKey(timeline'[i + 1])
          /\ Len(timeline') = Len(MergeInput)
          /\ \A k \in Keys(MergeInput) \cup Keys(timeline') :
                Contents(WithKey(timeline', k)) = Contents(WithKey(MergeInput, k))]_vars

\* C10 witness: a timeline in which the sort moved a later component's record
\* ahead of an earlier component's, and kept two records of equal time in
\* input order.
C10_Witness ==
    /\ \E i, j \in 1..Len(timeline) :
          /\ i < j
          /\ timeline[i].component = "emergency"
          /\ timeline[j].component = "ml"
    /\ \E i, j \in 1..Len(timeline) :
          /\ i < j
          /\ TimeKey(timeline[i]) = TimeKey(timeline[j])
          /\ timeline[i].description # timeline[j].description

----------------------------------------------------------------------------
(* The dashboard with its producers, and the dashboard over a long quiet run *)

NoTail == InitTailLoop

\* The logs the dashboard finds when it starts: all of them created empty, or
\* the ml log left by an earlier run.
StartFiles ==
    { InitFiles, [InitFiles EXCEPT !["ml"] = ListFile(<<RecB, RecA>>)] }

Init ==
    /\ files \in StartFiles
    /\ writes = 0
    /\ NoTail
    /\ InitDashboard({"all", "emergency"}, ShortRun)
    /\ viewport = Screen(max_y, max_x)

Next ==
    \/ Producer(MaxWrites) /\ UNCHANGED <<tailVars, dashVars>>
    \/ RunStart /\ UNCHANGED <<files, writes, tailVars>>
    \/ LoopTop /\ UNCHANGED <<files, writes, tailVars>>
    \/ UpdateActivities /\ UNCHANGED <<files, writes, tailVars>>
    \/ UpdateSystemStats /\ UNCHANGED <<files, writes, tailVars>>
    \/ ScreenStateChanged /\ UNCHANGED <<files, writes, tailVars>>
    \/ UpdateDisplay /\ UNCHANGED <<files, writes, tailVars>>
    \/ Getch /\ UNCHANGED <<files, writes, tailVars>>

Spec == Init /\ [][Next]_vars

\* The logs of the long run: the emergency log left by an earlier run holds
\* one record more than a cache keeps.
LongFiles == [InitFiles EXCEPT !["emergency"] = ListFile(LongList(max_items + 1))]

InitLong ==
    /\ files = LongFiles
    /\ writes = 0
    /\ NoTail
    /\ InitDashboard({"cognitive"}, LongRun)
    /\ viewport = Screen(max_y, max_x)

NextLong ==
    \/ RunStart /\ UNCHANGED <<files, writes, tailVars>>
    \/ LoopTop /\ UNCHANGED <<files, writes, tailVars>>
    \/ UpdateActivities /\ UNCHANGED <<files, writes, tailVars>>
    \/ UpdateSystemStats /\ UNCHANGED <<files, writes, tailVars>>
    \/ ScreenStateChanged /\ UNCHANGED <<files, writes, tailVars>>
    \/ UpdateDisplay /\ UNCHANGED <<files, writes, tailVars>>
    \/ Getch /\ UNCHANGED <<files, writes, tailVars>>

SpecLong == InitLong /\ [][NextLong]_vars

----------------------------------------------------------------------------
(* The dashboard alone on terminals of several sizes, with Ctrl-C *)

\* The logs found at the start: the ml log of two records, alone or next to an
\* emergency log longer than the render window.
ViewFiles ==
    { [InitFiles EXCEPT !["ml"] = ListFile(<<RecB, RecA>>)],
      [InitFiles EXCEPT !["ml"] = ListFile(<<RecB, RecA>>),
                        !["emergency"] = ListFile(LongList(max_items + 1))] }

Viewports ==
    { Screen(max_y, max_x), Screen(TallRows, max_x),
      Screen(max_y, NarrowCols), Screen(LowRows, max_x) }

InitView ==
    /\ files \in ViewFiles
    /\ writes = 0
    /\ NoTail
    /\ InitDashboard({"all", "ml"}, ShortRun)
    /\ viewport \in Viewports

NextView ==
    \/ RunStart /\ UNCHANGED <<files, writes, tailVars>>
    \/ LoopTop /\ UNCHANGED <<files, writes, tailVars>>
    \/ UpdateActivities /\ UNCHANGED <<files, writes, tailVars>>
    \/ UpdateSystemStats /\ UNCHANGED <<files, writes, tailVars>>
    \/ ScreenStateChanged /\ UNCHANGED <<files, writes, tailVars>>
    \/ UpdateDisplay /\ UNCHANGED <<files, writes, tailVars>>
    \/ Getch /\ UNCHANGED <<files, writes, tailVars>>
    \/ Interrupt /\ UNCHANGED <<files, writes, tailVars>>

SpecView == InitView /\ [][NextView]_vars

----------------------------------------------------------------------------
(* Claims about what is drawn, checked under SpecView *)

Least(a, b) == IF a <= b THEN a ELSE b

\* The rows between the status line and the bottom margin.
BodyRoom == IF viewport.h - 6 > 0 THEN viewport.h - 6 ELSE 0

\* C11: a render that draws the body shows the merged timeline most recent
\* first: row i shows the i-th record from the end of the timeline, and the
\* rows stop after the last 50 records, or earlier where the room above the
\* bottom margin ends.
C11_RenderWindow ==
    [][(Renders /\ ~screen'.error)
       => LET m == Len(timeline')
              n == Len(screen'.rows)
          IN  /\ n = Least(m, Least(window, BodyRoom))
              /\ \A i \in 1..n :
                    /\ screen'.rows[i].time = TimeKey(timeline'[m + 1 - i])
                    /\ screen'.rows[i].component = timeline'[m + 1 - i].component
                    /\ screen'.rows[i].line = Cut(Line(timeline'[m + 1 - i]), viewport.w)
                    /\ screen'.rows[i].y = 3 + i]_vars

\* C11 witness: a screen of exactly 50 rows cut from a longer timeline, its
\* first row the latest record.
C11_Witness ==
    /\ Len(timeline) > window
    /\ Len(screen.rows) = window
    /\ screen.rows[1].time = TimeKey(timeline[Len(timeline)])
    /\ screen.rows[1].time > screen.rows[window].time

----------------------------------------------------------------------------
(* Claims about the --type selection; C12 is checked under SpecTail *)

\* The components the --type value st selects.
Selected(st) == {c \in ComponentSet : st \in {"all", c}}

\* C12 (as claimed): in both modes only records of the components selected by
\* --type are presented: every line a poll of the tail mode prints, and every
\* record a render of the dashboard puts on the timeline, belongs to a
\* selected component, and every selected component's new records are printed.
C12_ViewFilterClaim ==
    /\ [][PollStep
          => /\ \A i \in 1..Len(printed') :
                   printed'[i].component \in Selected(stream_type)
             /\ \A c \in Selected(stream_type) :
                   Emitted(printed', c) = TailEmits(files[c], last_seen[c])]_vars
    /\ [][Renders
          => \A i \in 1..Len(timeline') :
                timeline'[i].component \in Selected(stream_type)]_vars

----------------------------------------------------------------------------
(* Claims about the loop of run(), checked under Spec *)

\* The step raised an exception that a handler caught: a file that cannot be
\* parsed during the collection, psutil failing during the metrics sample, or
\* the display failing.
CaughtCollecting ==
    Refreshes /\ \E c \in ComponentSet : Exists(files[c]) /\ ~Parses(files[c])
CaughtSampling == pc = "update_system_stats" /\ failures' > failures
CaughtRendering ==
    Renders /\ (\/ DisplayFails(files, ViewComponents(stream_type))
                \/ AddstrRaises(0, Header(stream_type), viewport)
                \/ AddstrRaises(2, StatusLine, viewport))

\* C13 (as claimed): the loop of run() ends only after the quit key or a
\* keyboard interrupt, and every exception caught inside an iteration is
\* reported by a notice and followed by a further step of the loop.
C13_NonFatalClaim ==
    /\ [][(pc # "done" /\ pc' = "done") => (~running \/ keys' > keys)]_vars
    /\ [][(CaughtCollecting \/ CaughtSampling \/ CaughtRendering)
          => (notice' /\ pc' # "done")]_vars

----------------------------------------------------------------------------
(* Claims about leaving run(), checked under SpecQuit: SpecView with the loop
   test taken whenever it stays enabled *)

SpecQuit ==
    /\ InitView
    /\ [][NextView]_vars
    /\ WF_vars(LoopTop /\ UNCHANGED <<files, writes, tailVars>>)

\* C14: once 'q' is read the running flag is false and stays false, no step
\* of a refresh cycle is taken any more, and the loop ends; and whenever run()
\* has ended, by the quit key or by Ctrl-C, the cursor is visible again.
C14_CleanExit ==
    /\ [][(pc = "getch" /\ pc' = "while" /\ last_key' = "q") => ~running']_vars
    /\ [][~running => (~running' /\ pc' \in {pc, "done"})]_vars
    /\ [](pc = "done" => ~cursor_hidden)
    /\ (~running ~> pc = "done")

\* C14 witness: run() has ended after the quit key, with the cursor, hidden
\* while the loop ran, visible again.
C14_Witness ==
    /\ pc = "done"
    /\ ~running
    /\ ~cursor_hidden
    /\ now > StartTime

----------------------------------------------------------------------------
(* The program from its start on the logs it finds, in either mode *)

\* What the ml and the emergency log hold before the program starts; the
\* other five logs do not exist yet.
Found == {Missing, Malformed, ListFile(<<>>), ListFile(<<RecB, RecA>>)}

PreFiles ==
    {[c \in ComponentSet |-> IF c = "ml" THEN m ELSE IF c = "emergency" THEN e ELSE Missing] :
        m \in Found, e \in Found}

InitStore ==
    /\ files \in PreFiles
    /\ writes = 0
    /\ NoTail
    /\ InitFields({"all"}, ShortRun)
    /\ pc = "new"
    /\ viewport = Screen(max_y, max_x)

NextStore ==
    \/ Construct
    \/ RunStart /\ UNCHANGED <<files, writes, tailVars>>
    \/ LoopTop /\ UNCHANGED <<files, writes, tailVars>>
    \/ UpdateActivities /\ UNCHANGED <<files, writes, tailVars>>
    \/ UpdateSystemStats /\ UNCHANGED <<files, writes, tailVars>>
    \/ ScreenStateChanged /\ UNCHANGED <<files, writes, tailVars>>
    \/ UpdateDisplay /\ UNCHANGED <<files, writes, tailVars>>
    \/ Getch /\ UNCHANGED <<files, writes, tailVars>>
    \/ pc = "tail" /\ TailPoll

SpecStore == InitStore /\ [][NextStore]_vars

\* C15: the start-up gives every component whose activity.json is absent a
\* file holding an empty list and leaves every file that exists as it is, so
\* that a second start-up would change nothing; after it no step of either
\* loop changes any log file.
C15_StoreInit ==
    /\ [][(pc = "new" /\ pc' # "new")
          => /\ \A c \in ComponentSet :
                   files'[c] = IF files[c] = Missing THEN ListFile(<<>>) ELSE files[c]
             /\ CreateMissing(files') = files']_vars
    /\ [][pc # "new" => files' = files]_vars

\* C15 witness: a loop has run on a store in which the start-up kept the ml
\* log it found and created the cognitive log empty.
C15_Witness ==
    /\ pc \in {"tail", "getch"}
    /\ now > StartTime
    /\ files["ml"] = ListFile(<<RecB, RecA>>)
    /\ files["cognitive"] = ListFile(<<>>)
    /\ \/ activities["ml"] = <<RecB, RecA>>
       \/ last_seen["ml"] = <<RecB, RecA>>

----------------------------------------------------------------------------
(* Claims about one refresh cycle, checked under Spec *)

\* A step of run() that moves it to another place.
Moves == pc' \notin {pc, "done"}

\* C16: a refresh cycle runs the collection, then the metrics sample, then the
\* change detector, and enters update_display only from the detector and only
\* when the detector returned true; a detector call on a snapshot equal to the
\* previous one is followed by no render.
C16_CycleOrder ==
    [][Moves
       => /\ pc' = "update_activities" => pc = "while"
          /\ pc = "update_activities" => pc' = "update_system_stats"
          /\ pc = "update_system_stats" => pc' = "screen_state_changed"
          /\ pc = "screen_state_changed"
             => pc' = (IF changed' THEN "update_display" ELSE "getch")
          /\ pc' = "update_display" => (pc = "screen_state_changed" /\ changed')
          /\ (pc = "screen_state_changed" /\ Snapshot = prev_snapshot)
             => pc' # "update_display"]_vars

\* C16 witness: a refresh cycle went from the detector, which returned false,
\* to getch without a render.
C16_Witness ==
    /\ pc = "getch"
    /\ last_update = current_time
    /\ prev_snapshot.set
    /\ ~changed
    /\ collected # [c \in ComponentSet |-> Missing]

----------------------------------------------------------------------------
(* The tail mode over a long quiet run *)

InitBeat ==
    /\ files = InitFiles
    /\ writes = 0
    /\ InitTailLoop
    /\ InitDashboard({"all"}, LongRun)
    /\ viewport = Screen(max_y, max_x)

NextBeat == TailPoll

SpecBeat == InitBeat /\ [][NextBeat]_vars

\* No record has been printed since the start.
Quiet == \A c \in ComponentSet : observed[c] = 0

\* The start of the window the next heartbeat is due in.
QuietSince == IF last_beat_at = NoTime THEN StartTime ELSE last_beat_at

\* The longest one iteration of the poll loop takes.
PollTicksMax == PollSleepTicks + 1

\* C17 (as claimed): while no record is printed, the heartbeat message is
\* printed within every 30-second window (give or take one poll), and two
\* heartbeat messages are never less than a window apart.
C17_TailHeartbeatClaim ==
    /\ [](Quiet => now - QuietSince <= HeartbeatTicks + PollTicksMax)
    /\ [][(tail_beat' /\ last_beat_at # NoTime /\ last_beat_at' # last_beat_at)
          => last_beat_at' - last_beat_at >= HeartbeatTicks - PollTicksMax]_vars

----------------------------------------------------------------------------
(* Claims about update_activities called again, checked under Spec *)

\* C18: a refresh that finds a component's file, of an accepted shape, as the
\* previous refresh found it leaves the cache that the previous refresh left;
\* and refreshing once more from the file just read would change nothing.
C18_RefreshIdempotent ==
    [][Refreshes
       => \A c \in ComponentSet :
             /\ (Accepted(files[c]) /\ collected[c] = files[c])
                => activities'[c] = refreshed[c]
             /\ Refresh(activities'[c], files[c]) = activities'[c]]_vars

\* C18 witness: the second refresh has read the ml log as the first one read
\* it, and the cache holds its records.
C18_Witness ==
    /\ pc = "update_system_stats"
    /\ prev_snapshot.set
    /\ collected["ml"] = files["ml"]
    /\ Accepted(files["ml"])
    /\ prev_snapshot.activities["ml"] = activities["ml"]
    /\ activities["ml"] # <<>>

----------------------------------------------------------------------------
(* Claims about the terminal size, checked under SpecView *)

\* The text ends in the three dots of a cut line.
Ellipsis(text) == Len(text) >= 3 /\ SubSeq(text, Len(text) - 2, Len(text)) = "..."

\* C19 (as claimed): on a terminal of any size a render whose files load
\* draws no error: every record line is at most as wide as the terminal, a
\* line cut to fit ends in an ellipsis, every record row lies above the bottom
\* margin, and what does not fit is left out.
C19_ViewportClaim ==
    [][(Renders /\ ~DisplayFails(files, ViewComponents(stream_type)))
       => /\ ~screen'.error
          /\ ~notice'
          /\ \A i \in 1..Len(screen'.rows) :
                LET row == screen'.rows[i]
                    r == timeline'[Len(timeline') + 1 - i]
                IN  /\ Len(row.line) <= viewport.w
                    /\ Len(Line(r)) > viewport.w => Ellipsis(row.line)
                    /\ row.y < viewport.h - 2]_vars

----------------------------------------------------------------------------
(* Claims about a producer writing during a cycle, checked under Spec *)

RECURSIVE Aggregated(_, _, _)
\* The records the cache holds for the components of a view, each under its
\* component's tag, in component order.
Aggregated(cache, view, i) ==
    IF i > Len(view) THEN <<>>
    ELSE StampAll(cache[view[i]], view[i]) \o Aggregated(cache, view, i + 1)

\* C20 (as claimed): a render that draws the body draws the records of the
\* snapshot of its own cycle, the one update_activities collected and
\* _screen_state_changed compared, whatever a producer wrote to the logs after
\* the collection.
C20_SnapshotClaim ==
    [][(Renders /\ ~screen'.error)
       => /\ prev_snapshot.activities = activities
          /\ screen'.rows
               = Rows(SortByTime(Aggregated(activities, ViewComponents(stream_type), 1)),
                      viewport)]_vars

----------------------------------------------------------------------------
(* The tail mode beside producers that only append *)

\* A file caught while its producer is writing the array s to it: the text
\* on disk is not yet JSON.
Partial(s) == [kind |-> "partial", recs |-> s]

\* The producer of c starts to write the log with the record r appended.
AppendBegin(c, r) ==
    /\ writes < MaxTailWrites
    /\ files[c].kind = "list"
    /\ Len(files[c].recs) < MaxLen
    /\ files' = [files EXCEPT ![c] = Partial(Append(files[c].recs, r))]
    /\ writes' = writes + 1

\* The producer of c completes the write it began.
AppendEnd(c) ==
    /\ files[c].kind = "partial"
    /\ files' = [files EXCEPT ![c] = ListFile(files[c].recs)]
    /\ writes' = writes

InitAppend ==
    /\ files = InitFiles
    /\ writes = 0
    /\ InitTailLoop
    /\ InitDashboard(TailTypes, TailRun)
    /\ viewport = Screen(max_y, max_x)

NextAppend ==
    \/ \E c \in ActiveProducers, r \in Records :
          ProducerAppend(c, r, MaxTailWrites) /\ UNCHANGED <<tailVars, dashVars>>
    \/ \E c \in ActiveProducers, r \in Records :
          AppendBegin(c, r) /\ UNCHANGED <<tailVars, dashVars>>
    \/ \E c \in ActiveProducers : AppendEnd(c) /\ UNCHANGED <<tailVars, dashVars>>
    \/ TailPoll

SpecAppend == InitAppend /\ [][NextAppend]_vars

----------------------------------------------------------------------------
(* Claims about logs that only grow, checked under SpecAppend *)

\* An iteration of the poll loop: the only step that takes time.
Polls == now' # now

\* s is the beginning of t.
IsPrefix(s, t) == Len(s) <= Len(t) /\ SubSeq(t, 1, Len(s)) = s

\* C21: while a log only grows by appending, every record of it is printed
\* exactly once and in file order: what has been printed of a component is
\* always the beginning of its log up to the cursor, each poll prints what
\* follows the cursor and nothing else, a poll that reads the array leaves
\* none of its records unprinted, and a poll that finds the file half written
\* prints none and leaves the cursor where it was.
C21_ExactlyOnce ==
    /\ [](\A c \in ComponentSet :
             /\ Cursor(c) = observed[c]
             /\ IsPrefix(last_seen[c], files[c].recs))
    /\ [][Polls
          => \A c \in ComponentSet :
                /\ last_seen'[c] = last_seen[c] \o Emitted(printed', c)
                /\ IsList(files[c]) => last_seen'[c] = files[c].recs
                /\ ~Parses(files[c])
                   => /\ last_seen'[c] = last_seen[c]
                      /\ Emitted(printed', c) = <<>>]_vars

\* C21 witness: the ml log has grown to two records; a poll found it half
\* written after the first record was printed, and the latest poll has
\* printed the second record alone.
C21_Witness ==
    /\ failed_at["ml"] = 1
    /\ Len(last_seen["ml"]) = 2
    /\ observed["ml"] = 2
    /\ printed = <<TailLine("ml", last_seen["ml"][2])>>

----------------------------------------------------------------------------
(* Both modes beside one log that cannot be used *)

\* What the start-up can find in the ml log and leaves as it is: an empty
\* array, text that is not JSON, or JSON of another shape.
FaultyLogs ==
    { ListFile(<<>>), Malformed, Scalar, ObjectFile(RecA), HistoryFile(<<RecA>>) }

\* The logs at the start of the loop: records in the cognitive and in the
\* emergency log, which stand before and after the ml log in the order of the
\* components.
FaultFiles ==
    { [InitFiles EXCEPT !["cognitive"] = ListFile(<<RecD>>),
                        !["ml"] = m,
                        !["emergency"] = ListFile(<<RecB, RecA>>)] : m \in FaultyLogs }

InitFault ==
    /\ files \in FaultFiles
    /\ writes = 0
    /\ NoTail
    /\ InitFields({"all"}, ShortRun)
    /\ pc \in {"start", "tail"}
    /\ viewport = Screen(max_y, max_x)

NextFault ==
    \/ ProducerReplace("ml", Missing, MaxWrites) /\ UNCHANGED <<tailVars, dashVars>>
    \/ RunStart /\ UNCHANGED <<files, writes, tailVars>>
    \/ LoopTop /\ UNCHANGED <<files, writes, tailVars>>
    \/ UpdateActivities /\ UNCHANGED <<files, writes, tailVars>>
    \/ UpdateSystemStats /\ UNCHANGED <<files, writes, tailVars>>
    \/ ScreenStateChanged /\ UNCHANGED <<files, writes, tailVars>>
    \/ UpdateDisplay /\ UNCHANGED <<files, writes, tailVars>>
    \/ Getch /\ UNCHANGED <<files, writes, tailVars>>
    \/ pc = "tail" /\ TailPoll

SpecFault == InitFault /\ [][NextFault]_vars

----------------------------------------------------------------------------
(* Claims about one unusable log among usable ones, checked under SpecFault *)

\* C22 (as claimed): whatever one component's log holds (nothing, text that
\* is not JSON, JSON that is not an array), in the same cycle every component
\* whose log is an array has its records collected by update_activities, drawn
\* by update_display in the all view, and printed by the poll of the tail mode.
C22_IsolationClaim ==
    /\ [][Refreshes
          => \A c \in ComponentSet :
                IsList(files[c]) => activities'[c] = LastN(files[c].recs, max_items)]_vars
    /\ [][(Renders /\ stream_type = "all")
          => /\ ~screen'.error
             /\ screen'.rows = Rows(SortByTime(Gathered(files, Components, 1)), viewport)]_vars
    /\ [][(pc = "tail" /\ Polls)
          => \A c \in ComponentSet :
                IsList(files[c])
                => Emitted(printed', c) = NewActivities(files[c].recs, last_seen[c])]_vars

====
